---- MODULE Spec2Model ----
(***************************************************************************)
(* Phlogiston: day-by-day reconstruction of task state from the            *)
(* transaction log (reconstruct, reconstruct_task_on_date), the            *)
(* recategorization rule loader (import_recategorization_file) and the     *)
(* recategorization pass of a report run (report, recategorize).           *)
(*                                                                         *)
(* One scope is modelled.  Dates are day numbers; a timestamp is a tick    *)
(* count, TicksPerDay ticks to the day, so Midnight(d) is the start of     *)
(* day d and the end of day d - 1.                                         *)
(***************************************************************************)
EXTENDS Integers, Sequences, FiniteSets, TLC

\* ------------------------------------------------------------------ bounds
MaxDay == 3
MaxRuns == 3
TicksPerDay == 2

\* ------------------------------------------------- PHAB_TAGS (main, l.45-48)
TagEpic == 942
TagNew == 1453
TagMaint == 1454
TagCategory == 1656

PHAB_TAGS == <<TagEpic, TagNew, TagMaint, TagCategory>>

Tasks == {1, 2}

\* An optional value: <<>> is Python's None, <<v>> is the value v.
None == <<>>
Some(v) == <<v>>
IsNone(o) == o = <<>>

Midnight(d) == TicksPerDay * d

\* ---------------------------------------------------------------- sequences
Range(s) == {s[i] : i \in 1..Len(s)}

RECURSIVE SetToSeq(_)
\* The elements of a finite set of integers, ascending.
SetToSeq(S) ==
    IF S = {} THEN <<>>
    ELSE LET m == CHOOSE x \in S : \A y \in S : x <= y
         IN <<m>> \o SetToSeq(S \ {m})

\* ------------------------------------------------------------ Python int()
Digits == {"0", "1", "2", "3", "4", "5", "6", "7", "8", "9"}
DigitVal(c) ==
    CASE c = "0" -> 0 [] c = "1" -> 1 [] c = "2" -> 2 [] c = "3" -> 3
      [] c = "4" -> 4 [] c = "5" -> 5 [] c = "6" -> 6 [] c = "7" -> 7
      [] c = "8" -> 8 [] c = "9" -> 9

RECURSIVE StripLeft(_)
StripLeft(s) == IF s # <<>> /\ Head(s) = " " THEN StripLeft(Tail(s)) ELSE s

RECURSIVE StripRight(_)
StripRight(s) ==
    IF s # <<>> /\ s[Len(s)] = " " THEN StripRight(SubSeq(s, 1, Len(s) - 1)) ELSE s

RECURSIVE DigitsValue(_, _)
DigitsValue(s, acc) ==
    IF s = <<>> THEN acc ELSE DigitsValue(Tail(s), 10 * acc + DigitVal(Head(s)))

\* int(x) guarded by "except": None for None and for text that is no
\* integer literal; surrounding blanks and one sign are accepted.
PyInt(o) ==
    IF IsNone(o) THEN None
    ELSE LET s == StripRight(StripLeft(o[1]))
             signed == s # <<>> /\ Head(s) \in {"-", "+"}
             body == IF signed THEN Tail(s) ELSE s
         IN IF body = <<>> \/ \E i \in 1..Len(body) : body[i] \notin Digits
            THEN None
            ELSE Some(IF signed /\ Head(s) = "-"
                      THEN 0 - DigitsValue(body, 0)
                      ELSE DigitsValue(body, 0))

\* Python truth of an optional integer: None and 0 are false.
Truthy(o) == ~IsNone(o) /\ o[1] # 0

\* ------------------------------------------------------------------- tables
\* maniphest_transaction row (load, l.318-327): new_value is text, a sequence
\* of characters ("" is <<>>); active_projects is the decoded list of project
\* ids of a core:edge transaction, kept as a set since only membership is read.
Event(id, task, type, value, ts, projs) ==
    [id |-> id, task_id |-> task, transaction_type |-> type, new_value |-> value,
     date_modified |-> ts, has_edge_data |-> type = "core:edge",
     active_projects |-> projs]

\* task_on_date row, in the column order of denorm_insert.
Snapshot(date, id, status, project_id, project, column, points, maint, priority) ==
    [date |-> date, id |-> id, status |-> status, project_id |-> project_id,
     project |-> project, projectcolumn |-> column, points |-> points,
     maint_type |-> maint, priority |-> priority]

\* category row, in the column order of insert_sql.
CategoryRow(sort_order, rule, ids, names, matchstring, title, display) ==
    [sort_order |-> sort_order, rule |-> rule, project_id_list |-> ids,
     project_name_list |-> names, matchstring |-> matchstring, title |-> title,
     display |-> display]

\* ------------------------------------------- stored procedures (accessors)
\* Is event a chronologically later than event b (ties: higher id is later).
Later(a, b) ==
    \/ a.date_modified > b.date_modified
    \/ a.date_modified = b.date_modified /\ a.id > b.id

RECURSIVE LatestFirst(_)
\* A set of events as a sequence, latest first.
LatestFirst(E) ==
    IF E = {} THEN <<>>
    ELSE LET top == CHOOSE e \in E : \A f \in E \ {e} : Later(e, f)
         IN <<top>> \o LatestFirst(E \ {top})

\* get_transaction_value(date, type, task): the new_value of every transaction
\* of that type on that task not later than midnight at date, latest first.
get_transaction_value(log, date, type, task) ==
    LET E == {e \in log : /\ e.task_id = task
                          /\ e.transaction_type = type
                          /\ e.date_modified <= Midnight(date)}
        s == LatestFirst(E)
    IN [i \in 1..Len(s) |-> s[i].new_value]

\* get_edge_value(date, task): the project ids associated with the task as of
\* midnight at date, the union over its edge transactions up to then.
get_edge_value(log, date, task) ==
    UNION {e.active_projects : e \in {f \in log : /\ f.task_id = task
                                                  /\ f.has_edge_data
                                                  /\ f.date_modified <= Midnight(date)}}

\* build_edges(date, project_id_list): replace the rows of maniphest_edge for
\* that date by the associations as of that date with the listed projects.
build_edges(edge, log, date, ids) ==
    {r \in edge : r.edge_date # date}
    \cup {[task |-> t, project |-> p, edge_date |-> date] :
            <<t, p>> \in {tp \in Tasks \X ids : tp[2] \in get_edge_value(log, date, tp[1])}}

\* get_tasks(date, project_ids): the tasks with a row of maniphest_edge for
\* that date and one of the projects, ascending.
get_tasks(edge, date, ids) ==
    SetToSeq({r.task : r \in {q \in edge : q.edge_date = date /\ q.project \in ids}})

\* --------------------------------------------- lookups built by reconstruct
\* dict(SELECT name, phid ...): one entry per name; of several projects with
\* one name the dict keeps a single row (the one with the largest id here).
DictRow(projects, ids, name) ==
    LET R == {q \in projects : q.id \in ids /\ q.name = name}
    IN CHOOSE q \in R : \A o \in R : o.id <= q.id

NamesOf(projects, ids) == {q.name : q \in {o \in projects : o.id \in ids}}

\* project_name_to_id_dict inverted: the ids that have a name to map to.
project_id_to_name_keys(projects, ids) ==
    {DictRow(projects, ids, n).id : n \in NamesOf(projects, ids)}

project_id_to_name(projects, ids, id) ==
    (CHOOSE q \in projects : q.id = id).name

project_name_to_phid(projects, ids, name) == DictRow(projects, ids, name).phid

\* column_dict: column phid -> name, for the columns of the listed projects.
column_dict_keys(columns, projects, ids) ==
    {c.phid : c \in {d \in columns :
        \E q \in projects : q.id \in ids /\ q.phid = d.project_phid}}

column_name(columns, phid) == (CHOOSE c \in columns : c.phid = phid).name

\* ------------------------------------------------ reconstruct_task_on_date
\* The first project of project_id_list that is among the edges, or None
\* (the loop that leaves best_edge = '').
RECURSIVE BestEdgeLast(_, _)
BestEdgeLast(project_id_list, edges) ==
    IF project_id_list = <<>> THEN None
    ELSE LET rest == BestEdgeLast(Tail(project_id_list), edges)
         IN IF ~IsNone(rest) THEN rest
            ELSE IF Head(project_id_list) \in edges THEN Some(Head(project_id_list))
            ELSE None

RECURSIVE BestEdge(_, _)
BestEdge(project_id_list, edges) ==
    IF project_id_list = <<>> THEN None
    ELSE IF Head(project_id_list) \in edges THEN Some(Head(project_id_list))
    ELSE BestEdge(Tail(project_id_list), edges)

MaintTypeMaintFirst(edges) ==
    IF TagMaint \in edges THEN "Maintenance"
    ELSE IF TagNew \in edges THEN "New Functionality"
    ELSE ""

MaintType(edges) ==
    IF TagNew \in edges THEN "New Functionality"
    ELSE IF TagMaint \in edges THEN "Maintenance"
    ELSE ""

PrettyValueOldest(rows) == IF rows # <<>> THEN rows[Len(rows)] ELSE <<>>

\* The value of the latest transaction of the type, '' when there is none.
PrettyValue(rows) == IF rows # <<>> THEN rows[1] ELSE <<>>

PrettyPoints(points_from_trans, points_from_info, default_points) ==
    IF Truthy(points_from_trans) THEN points_from_trans
    ELSE IF Truthy(points_from_info) THEN points_from_info
    ELSE default_points

\* The first column transaction on the board of the project, or None.
RECURSIVE FirstColumn(_, _)
FirstColumn(pc_trans_list, project_phid) ==
    IF pc_trans_list = <<>> THEN None
    ELSE IF Head(pc_trans_list)[1] = project_phid THEN Some(Head(pc_trans_list)[2])
    ELSE FirstColumn(Tail(pc_trans_list), project_phid)

NoRow == Snapshot(0, 0, <<>>, 0, <<>>, <<>>, None, "", <<>>)

\* "if not edges: raise Exception(...)": the run ends there.
NoEdgesReturns == [kind |-> "skip", row |-> NoRow]
NoEdges == [kind |-> "MissingEdgeData", row |-> NoRow]

\* "if not best_edge: return": nothing is written, the caller goes on.
NoBestEdgeRaises == [kind |-> "KeyError", row |-> NoRow]
NoBestEdge == [kind |-> "skip", row |-> NoRow]

\* What one call does: kind "insert" with the row it inserts into
\* task_on_date, "skip" for the silent return, "MissingEdgeData" for the
\* raise on a task without edges, "KeyError" for a failed dict lookup.
reconstruct_task_on_date(log, tasks, projects, columns, task_id, working_date, default_points, project_id_list) ==
    LET ids == Range(project_id_list)
        info == {t \in tasks : t.id = task_id}
        points_from_info ==
            IF info = {} THEN None ELSE PyInt((CHOOSE t \in info : TRUE).story_points)
        pretty_status ==
            PrettyValue(get_transaction_value(log, working_date, "status", task_id))
        pretty_priority ==
            PrettyValue(get_transaction_value(log, working_date, "priority", task_id))
        points_raw == get_transaction_value(log, working_date, "points", task_id)
        points_from_trans ==
            PyInt(IF points_raw = <<>> THEN None ELSE Some(points_raw[1]))
        pretty_points == PrettyPoints(points_from_trans, points_from_info, default_points)
        edges == get_edge_value(log, working_date, task_id)
        best_edge == BestEdge(project_id_list, edges)
        keyerror == [kind |-> "KeyError", row |-> NoRow]
    IN IF edges = {} THEN NoEdges
       ELSE IF ~Truthy(best_edge) THEN NoBestEdge
       ELSE IF best_edge[1] \notin project_id_to_name_keys(projects, ids) THEN keyerror
       ELSE
         LET pretty_project == project_id_to_name(projects, ids, best_edge[1])
             project_phid == project_name_to_phid(projects, ids, pretty_project)
             column_phid ==
                 FirstColumn(get_transaction_value(log, working_date, "core:columns",
                                                   task_id), project_phid)
         IN IF ~IsNone(column_phid)
               /\ column_phid[1] \notin column_dict_keys(columns, projects, ids)
            THEN keyerror
            ELSE [kind |-> "insert",
                  row |-> Snapshot(working_date, task_id, pretty_status, best_edge[1],
                                   pretty_project,
                                   IF IsNone(column_phid) THEN <<>>
                                   ELSE column_name(columns, column_phid[1]),
                                   pretty_points, MaintType(edges), pretty_priority)]

\* ------------------------------------------- import_recategorization_file
valid_rule_list == {"ProjectByID", "ProjectByName", "ProjectsByWildcard",
                    "Intersection", "ProjectColumn", "ParentTask"}

\* str.lower() on the display tokens the model uses.
Lower(tok) ==
    CASE tok = "False" -> "false" [] tok = "F" -> "f" [] tok = "NO" -> "no"
      [] tok = "No" -> "no" [] tok = "True" -> "true" [] OTHER -> tok

Display(tok) == Lower(tok) \notin {"false", "f", "no", "0"}

\* Does text s contain text m as a substring (SQL LIKE '%m%').
Contains(s, m) ==
    \E i \in 0..(Len(s) - Len(m)) : SubSeq(s, i + 1, i + Len(m)) = m

RECURSIVE ProjectsById(_)
\* Rows of phabricator_project as a sequence, by id.
ProjectsById(P) ==
    IF P = {} THEN <<>>
    ELSE LET q == CHOOSE x \in P : \A y \in P : x.id <= y.id
         IN <<q>> \o ProjectsById(P \ {q})

\* get_projects_by_name(pattern): the projects whose name matches; with
\* wildcard the pattern is %matchstring%, without it the name itself.
get_projects_by_name(projects, matchstring, wildcard) ==
    ProjectsById({q \in projects :
        IF wildcard THEN Contains(q.name, matchstring) ELSE q.name = matchstring})

\* The INSERT is rejected (IntegrityError) when the scope already holds a
\* rule of the same content.
Collides(cat, row) ==
    \E i \in 1..Len(cat) :
        /\ cat[i].rule = row.rule
        /\ cat[i].project_id_list = row.project_id_list
        /\ cat[i].matchstring = row.matchstring
        /\ cat[i].title = row.title

\* The INSERT without the count.
TryInsertNoCount(st, rule, ids, names, matchstring, title, display) ==
    LET row == CategoryRow(st.counter, rule, ids, names, matchstring, title, display)
    IN IF Collides(st.category, row) THEN st
       ELSE [st EXCEPT !.category = Append(@, row)]

\* The INSERT whose IntegrityError is not caught.
TryInsertRaises(st, rule, ids, names, matchstring, title, display) ==
    LET row == CategoryRow(st.counter, rule, ids, names, matchstring, title, display)
    IN IF Collides(st.category, row) THEN [st EXCEPT !.error = "IntegrityError"]
       ELSE [st EXCEPT !.category = Append(@, row), !.counter = @ + 1]

\* try: INSERT; counter += 1 / except IntegrityError: skip.
TryInsert(st, rule, ids, names, matchstring, title, display) ==
    LET row == CategoryRow(st.counter, rule, ids, names, matchstring, title, display)
    IN IF Collides(st.category, row) THEN st
       ELSE [st EXCEPT !.category = Append(@, row), !.counter = @ + 1]

\* The expansion that stores the first match only.
InsertWildcardOne(st, found, display) ==
    IF found = <<>> THEN st
    ELSE TryInsert(st, "ProjectByID", <<Head(found).id>>, <<Head(found).name>>,
                   <<>>, Head(found).name, display)

RECURSIVE InsertWildcard(_, _, _)
\* for row in cur.fetchall(): one INSERT per matched project.
InsertWildcard(st, found, display) ==
    IF found = <<>> THEN st
    ELSE InsertWildcard(
           TryInsert(st, "ProjectByID", <<Head(found).id>>, <<Head(found).name>>,
                     <<>>, Head(found).name, display),
           Tail(found), display)

\* The loader that stores a resolved ProjectByName line under its own kind.
ImportLineKeepKind(st, line, projects) ==
    LET display == Display(line.display)
        id_list == line.id
    IN IF line.rule \notin valid_rule_list
       THEN [st EXCEPT !.error = "InvalidRule"]
       ELSE IF line.rule # "Intersection" /\ Len(id_list) > 1
       THEN [st EXCEPT !.error = "TooManyIds"]
       ELSE IF line.rule = "ProjectsByWildcard"
       THEN InsertWildcard(st, get_projects_by_name(projects, line.matchstring, TRUE),
                           display)
       ELSE IF line.rule = "ProjectByName"
       THEN LET found == get_projects_by_name(projects, line.matchstring, FALSE)
            IN IF found = <<>> THEN [st EXCEPT !.error = "NoMatchingProject"]
               ELSE TryInsert(st, line.rule, <<found[1].id>>, <<line.matchstring>>,
                              <<>>, line.title, display)
       ELSE LET known == ProjectsById({q \in projects : q.id \in Range(id_list)})
                name_list == [i \in 1..Len(known) |-> known[i].name]
            IN TryInsert(st, line.rule, id_list, name_list, line.matchstring,
                         line.title, display)

\* One pass of "for line in reader": st is [category, counter, error].
ImportLine(st, line, projects) ==
    LET display == Display(line.display)
        id_list == line.id
    IN IF line.rule \notin valid_rule_list
       THEN [st EXCEPT !.error = "InvalidRule"]
       ELSE IF line.rule # "Intersection" /\ Len(id_list) > 1
       THEN [st EXCEPT !.error = "TooManyIds"]
       ELSE IF line.rule = "ProjectsByWildcard"
       THEN InsertWildcard(st, get_projects_by_name(projects, line.matchstring, TRUE),
                           display)
       ELSE IF line.rule = "ProjectByName"
       THEN LET found == get_projects_by_name(projects, line.matchstring, FALSE)
            IN IF found = <<>> THEN [st EXCEPT !.error = "NoMatchingProject"]
               ELSE TryInsert(st, "ProjectByID", <<found[1].id>>, <<line.matchstring>>,
                              <<>>, line.title, display)
       ELSE LET known == ProjectsById({q \in projects : q.id \in Range(id_list)})
                name_list == [i \in 1..Len(known) |-> known[i].name]
            IN TryInsert(st, line.rule, id_list, name_list, line.matchstring,
                         line.title, display)

\* --------------------------------- get_project_list_from_recategorization
RECURSIVE AppendNew(_, _)
\* for id in result_list: if id not in project_id_list: append
AppendNew(list, ids) ==
    IF ids = <<>> THEN list
    ELSE AppendNew(IF Head(ids) \in Range(list) THEN list ELSE Append(list, Head(ids)),
                   Tail(ids))

RECURSIVE ProjectList(_, _)
ProjectList(cat, list) ==
    IF cat = <<>> THEN list
    ELSE ProjectList(Tail(cat), AppendNew(list, Head(cat).project_id_list))

get_project_list_from_recategorization(cat) == ProjectList(cat, <<>>)

\* ------------------------------------------- reporting stored procedures
\* load_tasks_to_recategorize: the scope's Snapshots, not yet categorized.
load_tasks_to_recategorize(tod) ==
    [i \in 1..Len(tod) |-> [row |-> tod[i], category |-> None]]

\* A rule claims the rows it matches (hit, their positions) that no earlier
\* rule has claimed.
Categorize(table, title, hit) ==
    [i \in 1..Len(table) |->
        IF IsNone(table[i].category) /\ i \in hit
        THEN [table[i] EXCEPT !.category = Some(title)]
        ELSE table[i]]

recategorize_by_project(table, ids, title) ==
    Categorize(table, title,
               {i \in 1..Len(table) : table[i].row.project_id \in Range(ids)})

recategorize_by_intersection(table, log, ids, title) ==
    Categorize(table, title,
               {i \in 1..Len(table) :
                   Range(ids) \subseteq
                       get_edge_value(log, table[i].row.date, table[i].row.id)})

recategorize_by_column(table, ids, title, matchstring) ==
    Categorize(table, title,
               {i \in 1..Len(table) : /\ table[i].row.project_id \in Range(ids)
                                      /\ table[i].row.projectcolumn = matchstring})

RECURSIVE Ancestors(_, _, _)
\* The tasks a task is (transitively) a subtask of.
Ancestors(tasks, id, fuel) ==
    LET up == {t.parent[1] : t \in {u \in tasks : u.id = id /\ ~IsNone(u.parent)}}
    IN IF fuel = 0 THEN {}
       ELSE up \cup UNION {Ancestors(tasks, a, fuel - 1) : a \in up}

recategorize_by_parenttask(table, tasks, ids, title, matchstring) ==
    Categorize(table, title,
               {i \in 1..Len(table) :
                   /\ table[i].row.project_id \in Range(ids)
                   /\ \E t \in tasks :
                        /\ t.id \in Ancestors(tasks, table[i].row.id, Cardinality(tasks))
                        /\ t.title = matchstring})

purge_leftover_task_on_date(table) ==
    SelectSeq(table, LAMBDA x : ~IsNone(x.category))

\* The row of a task with the latest date.
LatestOf(table, id) ==
    LET I == {i \in 1..Len(table) : table[i].row.id = id}
    IN table[CHOOSE i \in I : \A j \in I : table[j].row.date <= table[i].row.date]

set_category_retroactive(table) ==
    [i \in 1..Len(table) |->
        [table[i] EXCEPT !.category = LatestOf(table, table[i].row.id).category]]

set_points_retroactive(table) ==
    [i \in 1..Len(table) |->
        [table[i] EXCEPT !.row.points = LatestOf(table, table[i].row.id).row.points]]

RECURSIVE BySortOrder(_)
\* get_category_rules: the scope's rules by sort_order.
BySortOrder(R) ==
    IF R = {} THEN <<>>
    ELSE LET r == CHOOSE x \in R : \A y \in R : x.sort_order <= y.sort_order
         IN <<r>> \o BySortOrder(R \ {r})

get_category_rules(cat) == BySortOrder(Range(cat))

\* One pass of "for row in cur.fetchall()" of recategorize: the table after
\* the rule's stored procedure, or the raise for a rule of no known kind.
RecategorizeRow(table, log, tasks, r) ==
    IF r.rule = "ProjectByID"
    THEN [table |-> recategorize_by_project(table, r.project_id_list, r.title),
          error |-> ""]
    ELSE IF r.rule = "Intersection"
    THEN [table |-> recategorize_by_intersection(table, log, r.project_id_list, r.title),
          error |-> ""]
    ELSE IF r.rule = "ProjectColumn"
    THEN [table |-> recategorize_by_column(table, r.project_id_list, r.title,
                                           r.matchstring),
          error |-> ""]
    ELSE IF r.rule = "ParentTask"
    THEN [table |-> recategorize_by_parenttask(table, tasks, r.project_id_list, r.title,
                                               r.matchstring),
          error |-> ""]
    ELSE [table |-> table, error |-> "InvalidRule"]

\* fix_status: every Snapshot whose status is a known corrupt value gets the
\* corrected one.
CorruptStatus == <<"?">>
RepairedStatus == <<"invalid">>
fix_status(tod) ==
    [i \in 1..Len(tod) |->
        IF tod[i].status = CorruptStatus
        THEN [tod[i] EXCEPT !.status = RepairedStatus] ELSE tod[i]]

\* -------------------------------------------------------------------- state
VARIABLES
    \* loaded data and configuration (fixed once loaded)
    maniphest_transaction, maniphest_task, phabricator_project, phabricator_column,
    recat_file, config,
    \* tables the runs write
    category, maniphest_edge, task_on_date, task_on_date_recategorized,
    \* the calendar and the invocations left in the session
    today, budget,
    \* the running invocation: where it is, its arguments and its locals
    pc, op, incremental, start_date, end_date, working_date, rows, line_no, counter,
    project_id_list, rules, error, calls,
    \* maniphest_edge and category as the running invocation found them, and
    \* the last finished invocation
    edge0, category0, prev

data == <<maniphest_transaction, maniphest_task, phabricator_project,
          phabricator_column, recat_file, config>>
tables == <<category, maniphest_edge, task_on_date, task_on_date_recategorized>>
args == <<op, incremental, start_date, end_date>>
locals == <<working_date, rows, line_no, counter, project_id_list, rules, error, calls,
            edge0, category0>>
vars == <<data, tables, today, budget, pc, args, locals, prev>>

NoPrev == [op |-> "", incremental |-> FALSE, start_date |-> None, end_date |-> 0,
           pc |-> "", edge |-> {}]

id_list_with_worktypes == Range(project_id_list) \cup Range(PHAB_TAGS)

RECURSIVE MaxDate(_)
\* SELECT MAX(date) FROM task_on_date: None for an empty table.
MaxDate(tod) ==
    IF tod = <<>> THEN None
    ELSE LET m == MaxDate(Tail(tod))
         IN IF IsNone(m) \/ m[1] < Head(tod).date THEN Some(Head(tod).date) ELSE m

IncrementalStartRedo(tod) ==
    IF IsNone(MaxDate(tod)) THEN None ELSE Some(MaxDate(tod)[1] - 1)

\* The start of an incremental run: the latest date of the scope's rows.
IncrementalStart(tod) == MaxDate(tod)

Abort(e) == /\ pc' = "aborted"
            /\ error' = e

Called(name, date) == calls' = Append(calls, <<name, date>>)

\* ------------------------------------------------------------------ inputs
\* A timestamp on day d: at its midnight, or during the day.
AtMidnight(d) == Midnight(d)
During(d) == Midnight(d) + 1

ProjectTable ==
    {[id |-> 3, name |-> <<"a", "x">>, phid |-> "P3"],
     [id |-> 7, name |-> <<"b", "x">>, phid |-> "P7"],
     [id |-> 9, name |-> <<"c">>, phid |-> "P9"]}

ColumnTable == {[phid |-> "C1", name |-> <<"Doing">>, project_phid |-> "P3"]}

TaskRow(id, title, story_points, parent) ==
    [id |-> id, title |-> title, story_points |-> story_points, parent |-> parent]

TaskTable(story_points) ==
    {TaskRow(1, <<"task1">>, story_points, None),
     TaskRow(2, <<"task2">>, None, Some(1))}

Line(rule, matchstring, id, title, display) ==
    [rule |-> rule, matchstring |-> matchstring, id |-> id, title |-> title,
     display |-> display]

ByID(id, title) == Line("ProjectByID", <<>>, <<id>>, <<title>>, "true")

FileA == <<ByID(3, "T3"), ByID(7, "T7")>>
FileB == <<ByID(7, "T7"), ByID(3, "T3")>>

RuleFiles ==
    {<<ByID(3, "T3"), ByID(3, "Dup")>>,
     <<Line("Intersection", <<>>, <<3, 7>>, <<"Both">>, "true"), ByID(3, "T3")>>,
     <<ByID(7, "T7"), ByID(3, "T3"), ByID(7, "T7")>>,
     <<Line("ProjectColumn", <<"Other">>, <<3>>, <<"Col">>, "No"),
       Line("ParentTask", <<"task1">>, <<7>>, <<"Kids">>, "true")>>,
     <<Line("ProjectColumn", <<"Doing">>, <<3>>, <<"Col">>, "0"), ByID(3, "T3")>>,
     <<Line("ProjectByName", <<"c">>, <<>>, <<"Named">>, "true"),
       Line("ProjectsByWildcard", <<"x">>, <<>>, <<>>, "F")>>,
     <<ByID(3, "T3"), Line("Bogus", <<>>, <<7>>, <<"T7">>, "true")>>,
     <<Line("ProjectByID", <<>>, <<3, 7>>, <<"T">>, "true")>>,
     <<Line("ProjectByName", <<"zz">>, <<>>, <<"Named">>, "true")>>,
     <<>>}

Edge(id, task, ts, projs) == Event(id, task, "core:edge", <<>>, ts, projs)
Attr(id, task, type, value, ts) == Event(id, task, type, value, ts, {})

TagSets == {{3, 7, 9}, {7, 9}, {9}, {3, TagNew}, {3, TagNew, TagMaint},
            {7, TagMaint}, {TagMaint}}

StaleRow(task, project, date) == [task |-> task, project |-> project, edge_date |-> date]

\* Times of the status and priority transactions: during day 0, at the
\* midnights that end day 0 and day 1, during day 2.
AttrTimes == {During(0), AtMidnight(1), AtMidnight(2), During(2)}

RawTexts == {<<"0">>, <<"5">>, <<"-", "2">>, <<"x">>, <<" ", "7">>, <<>>}

Config(default_points, retro_cat, retro_points) ==
    [default_points |-> default_points, retroactive_categories |-> retro_cat,
     retroactive_points |-> retro_points]

\* The day of the first invocation; the loaded log ends on it.
FirstDay == MaxDay - 1

\* --startdate values tried.
StartDates == {None, Some(0), Some(FirstDay)}

\* What scenarios differ in; everything else starts blank.
SetupAll(projects, stored, log, tasks, file, cfg, stale, runs) ==
    /\ maniphest_transaction = log
    /\ maniphest_task = tasks
    /\ phabricator_project = projects
    /\ phabricator_column = ColumnTable
    /\ recat_file = file
    /\ config = cfg
    /\ maniphest_edge = stale
    /\ budget = runs
    /\ category = stored
    /\ task_on_date = <<>>
    /\ task_on_date_recategorized = <<>>
    /\ today = FirstDay
    /\ pc = "idle"
    /\ op = ""
    /\ incremental = FALSE
    /\ start_date = None
    /\ end_date = 0
    /\ working_date = 0
    /\ rows = <<>>
    /\ line_no = 1
    /\ counter = 0
    /\ project_id_list = <<>>
    /\ rules = <<>>
    /\ error = ""
    /\ calls = <<>>
    /\ edge0 = {}
    /\ category0 = <<>>
    /\ prev = NoPrev

\* The scenarios on the three projects, with no rule stored yet.
Setup(log, tasks, file, cfg, stale, runs) ==
    SetupAll(ProjectTable, <<>>, log, tasks, file, cfg, stale, runs)

\* Sessions of several reconstructions: when the tasks got their projects,
\* and what an earlier build left in maniphest_edge for tomorrow's date
\* (the table is in the database, shared by all scopes, and outlives the
\* process and the log it was built from).
InitWindow ==
    \E d1 \in {0, FirstDay}, two \in BOOLEAN, status \in {<<"open">>, CorruptStatus},
       stale \in {{}, {StaleRow(2, 7, FirstDay + 1)}} :
        Setup({Edge(1, 1, During(d1), {3, TagNew}),
               Attr(2, 1, "status", status, During(0))}
              \cup (IF two THEN {Edge(3, 2, During(0), {7})} ELSE {}),
              TaskTable(None), FileA, Config(None, FALSE, FALSE), stale, MaxRuns)

\* One reconstruction: the projects of task 1, the order of the candidates,
\* and rows of maniphest_edge that the log no longer supports.
InitTags ==
    \E tags \in TagSets \cup {{}}, file \in {FileA, FileB},
       stale \in {{}, {StaleRow(1, 3, FirstDay + 1)},
                  {StaleRow(1, 3, FirstDay + 1), StaleRow(2, 7, FirstDay + 1)}} :
        Setup((IF tags = {} THEN {} ELSE {Edge(1, 1, During(0), tags)})
              \cup {Edge(2, 2, During(0), {7})},
              TaskTable(None), file, Config(None, FALSE, FALSE), stale, 1)

\* One reconstruction: two status or priority transactions of task 1.
InitAttrs ==
    \E ta \in AttrTimes, tb \in AttrTimes, type \in {"status", "priority"},
       first \in {1, 2} :
        Setup({Edge(3, 1, AtMidnight(0), {3}),
               Attr(first, 1, "status", <<"open">>, ta),
               Attr(3 - first, 1, type, <<"resolved">>, tb)},
              TaskTable(None), FileA, Config(None, FALSE, FALSE), {}, 1)

\* One reconstruction: the points transaction, the task's story points and
\* the scope's default.
InitPoints ==
    \E trans \in {None} \cup {Some(t) : t \in RawTexts},
       info \in {None} \cup {Some(t) : t \in RawTexts},
       default \in {None, Some(3)} :
        Setup({Edge(1, 1, AtMidnight(0), {3})}
              \cup (IF IsNone(trans) THEN {}
                    ELSE {Attr(2, 1, "points", trans[1], During(0))}),
              TaskTable(info), FileA, Config(default, FALSE, FALSE), {}, 1)

\* A reconstruction and a report: the rule file and the retroactive flags.
InitRules ==
    \E file \in RuleFiles, rc \in BOOLEAN, rp \in BOOLEAN :
        Setup({Edge(1, 1, During(0), {3, 7}),
               Attr(2, 1, "core:columns", <<"P3", "C1">>, During(0)),
               Attr(3, 1, "points", <<"5">>, During(1)),
               Edge(4, 2, During(0), {7}),
               Edge(5, 2, During(1), {9})},
              TaskTable(None), file, Config(None, rc, rp), {}, 2)

\* The three projects and a fourth with the name of the third.
ProjectTableDup == ProjectTable \cup {[id |-> 11, name |-> <<"c">>, phid |-> "P11"]}

ByName(matchstring, title) == Line("ProjectByName", matchstring, <<>>, <<title>>, "true")
Wildcard(matchstring) == Line("ProjectsByWildcard", matchstring, <<>>, <<>>, "true")

\* Rule files for the loader: names matched by one, several or no project,
\* wildcards that overlap, rows without ids and rows with ids of no project.
LoadFiles ==
    {<<ByName(<<"c">>, "Named")>>,
     <<ByID(3, "T3"), ByName(<<>>, "Blank")>>,
     <<Wildcard(<<"x">>), Wildcard(<<"a">>)>>,
     <<Wildcard(<<>>)>>,
     <<ByID(3, "T3"), Line("ProjectColumn", <<"Doing">>, <<>>, <<"Col">>, "true")>>,
     <<Line("ParentTask", <<"task1">>, <<>>, <<"Kids">>, "true"), ByID(7, "T7")>>,
     <<ByID(5, "T5")>>,
     <<Line("Intersection", <<>>, <<3, 5>>, <<"Mixed">>, "true")>>,
     <<ByID(3, "T3"), Wildcard(<<"x">>), ByID(9, "T9")>>,
     <<Wildcard(<<"zz">>), ByID(7, "T7")>>,
     <<ByID(3, "T3"), ByID(3, "T3"), ByID(7, "T7")>>}

RECURSIVE ImportLines(_, _, _)
\* "for line in reader" to its end or to the first raise.
ImportLines(st, lines, projects) ==
    IF lines = <<>> \/ st.error # "" THEN st
    ELSE ImportLines(ImportLine(st, Head(lines), projects), Tail(lines), projects)

\* The rules an earlier invocation stored from an earlier version of the
\* scope's file.
StoredBefore ==
    ImportLines([category |-> <<>>, counter |-> 0, error |-> ""],
                <<ByID(9, "T9"), ByID(3, "Old3")>>, ProjectTable).category

\* A reconstruction or a report, for its load of the rules: the file, the
\* projects, and what the scope has stored.
InitLoad ==
    \E file \in LoadFiles \cup RuleFiles, projects \in {ProjectTable, ProjectTableDup},
       stored \in {<<>>, StoredBefore} :
        SetupAll(projects, stored, {Edge(1, 1, During(0), {3})}, TaskTable(None), file,
                 Config(None, FALSE, FALSE), {}, 1)

\* One rule, on project 3.
FileOne == <<ByID(3, "T3")>>

\* Task 1 gets project 3 and the new-functionality tag and is opened on
\* day 0 (at its start or during it); the log has nothing else.
ScenarioLogs ==
    {{Edge(1, 1, ts, {3, TagNew}), Attr(2, 1, "status", <<"open">>, ts)} :
        ts \in {AtMidnight(0), During(0)}}

\* A reconstruction and a report of that log under that rule, on a
\* database with no row of maniphest_edge.
InitScenario ==
    \E log \in ScenarioLogs :
        Setup(log, TaskTable(None), FileOne, Config(None, FALSE, FALSE), {}, 2)

Init ==
    InitWindow \/ InitTags \/ InitAttrs \/ InitPoints \/ InitRules \/ InitLoad \/ InitScenario

\* ------------------------------------------------------------- invocations
\* main up to the call of reconstruct or report: end_date is today (the text
\* of --end-date is never parsed into a date), and without a start date on
\* the command line or in the scope's configuration main exits at once.
Begin(o, inc, start) ==
    /\ pc = "idle"
    /\ budget > 0
    /\ IF IsNone(start)
       THEN Abort("NoStartDate")
       ELSE /\ pc' = "load_delete"
            /\ UNCHANGED error
    /\ op' = o
    /\ incremental' = inc
    /\ start_date' = start
    /\ end_date' = today
    /\ edge0' = maniphest_edge
    /\ category0' = category
    /\ UNCHANGED <<working_date, rows, line_no, counter, project_id_list, rules, calls>>
    /\ UNCHANGED <<data, tables, today, budget, prev>>

\* main: --reconstruct [--incremental] [--startdate].
StartReconstruct == \E inc \in BOOLEAN, start \in StartDates :
    Begin("reconstruct", inc, start)

\* main: --report.
StartReport == \E start \in StartDates : Begin("report", FALSE, start)

\* The process ends, normally or by an uncaught exception or sys.exit.
Exit ==
    /\ pc \in {"done", "aborted"}
    /\ pc' = "idle"
    /\ budget' = budget - 1
    /\ prev' = [op |-> op, incremental |-> incremental, start_date |-> start_date,
                end_date |-> end_date, pc |-> pc, edge |-> edge0]
    /\ op' = ""
    /\ incremental' = FALSE
    /\ start_date' = None
    /\ end_date' = 0
    /\ working_date' = 0
    /\ rows' = <<>>
    /\ line_no' = 1
    /\ counter' = 0
    /\ project_id_list' = <<>>
    /\ rules' = <<>>
    /\ error' = ""
    /\ calls' = <<>>
    /\ edge0' = {}
    /\ category0' = <<>>
    /\ UNCHANGED <<data, tables, today>>

\* A day passes between invocations.
AdvanceDay ==
    /\ pc = "idle"
    /\ budget > 0
    /\ today < MaxDay
    /\ today' = today + 1
    /\ UNCHANGED <<data, tables, budget, pc, args, locals, prev>>

\* --------------------------------------------- import_recategorization_file
\* The load without its DELETE.
LoadDeleteSkipped ==
    /\ pc = "load_delete"
    /\ pc' = "load_row"
    /\ UNCHANGED <<data, tables, today, budget, args, locals, prev>>

\* DELETE FROM category WHERE scope = ... (autocommit: visible at once).
LoadDelete ==
    /\ pc = "load_delete"
    /\ category' = <<>>
    /\ pc' = "load_row"
    /\ UNCHANGED <<data, maniphest_edge, task_on_date, task_on_date_recategorized,
                   today, budget, args, locals, prev>>

\* One line of the file; after the last one the caller goes on.
LoadRow ==
    /\ pc = "load_row"
    /\ IF line_no > Len(recat_file)
       THEN /\ pc' = IF op = "reconstruct" THEN "recon_setup" ELSE "report_setup"
            /\ UNCHANGED <<category, counter, line_no, error>>
       ELSE LET st == ImportLine([category |-> category, counter |-> counter,
                                  error |-> ""],
                                 recat_file[line_no], phabricator_project)
            IN /\ category' = st.category
               /\ counter' = st.counter
               /\ line_no' = line_no + 1
               /\ IF st.error # "" THEN Abort(st.error)
                  ELSE UNCHANGED <<pc, error>>
    /\ UNCHANGED <<data, maniphest_edge, task_on_date, task_on_date_recategorized,
                   today, budget, args, working_date, rows, project_id_list, rules,
                   calls, edge0, category0, prev>>

\* ------------------------------------------------------------- reconstruct
\* From the project list to the start of the window: the lookups, then the
\* incremental base or the wipe.
ReconSetup ==
    /\ pc = "recon_setup"
    /\ LET list == get_project_list_from_recategorization(category)
       IN /\ project_id_list' = list
          /\ IF list = <<>>
             \* "WHERE id IN ()" is rejected by the server
             THEN /\ Abort("EmptyProjectList")
                  /\ UNCHANGED <<task_on_date, start_date, working_date>>
             ELSE IF incremental
             THEN LET base == IncrementalStart(task_on_date)
                  IN /\ UNCHANGED task_on_date
                     /\ IF IsNone(base)
                        THEN /\ Abort("NoIncrementalBase")
                             /\ UNCHANGED <<start_date, working_date>>
                        ELSE /\ start_date' = base
                             /\ working_date' = base[1]
                             /\ pc' = "build"
                             /\ UNCHANGED error
             ELSE /\ task_on_date' = <<>>
                  /\ IF IsNone(start_date)
                     \* main never passes None; if it did, DATE(min(...))
                     \* would arrive as a datetime.date, which has no
                     \* .date(): the call at l.398 raises
                     THEN /\ Abort("AttributeError")
                          /\ UNCHANGED <<start_date, working_date>>
                     ELSE /\ working_date' = start_date[1]
                          /\ pc' = "build"
                          /\ UNCHANGED <<start_date, error>>
    /\ UNCHANGED <<data, category, maniphest_edge, task_on_date_recategorized, today,
                   budget, op, incremental, end_date, rows, line_no, counter, rules,
                   calls, edge0, category0, prev>>

\* First loop: build_edges for each date of [start_date, end_date].
BuildEdges ==
    /\ pc = "build"
    /\ IF working_date <= end_date
       THEN /\ maniphest_edge' = build_edges(maniphest_edge, maniphest_transaction,
                                             working_date, id_list_with_worktypes)
            /\ Called("build_edges", working_date)
            /\ working_date' = working_date + 1
            /\ UNCHANGED pc
       ELSE /\ working_date' = start_date[1]
            /\ pc' = "recon"
            /\ UNCHANGED <<maniphest_edge, calls>>
    /\ UNCHANGED <<data, category, task_on_date, task_on_date_recategorized, today,
                   budget, args, rows, line_no, counter, project_id_list, rules, error,
                   edge0, category0, prev>>

\* Second loop, top: the date is incremented before it is used.
ReconDay ==
    /\ pc = "recon"
    /\ IF working_date <= end_date
       THEN /\ working_date' = working_date + 1
            /\ rows' = get_tasks(maniphest_edge, working_date + 1, Range(project_id_list))
            /\ Called("get_tasks", working_date + 1)
            /\ pc' = "tasks"
       ELSE /\ pc' = "post"
            /\ UNCHANGED <<working_date, rows, calls>>
    /\ UNCHANGED <<data, tables, today, budget, args, line_no, counter, project_id_list,
                   rules, error, edge0, category0, prev>>

\* Second loop, one fetched task.
ReconTask ==
    /\ pc = "tasks"
    /\ rows # <<>>
    /\ LET out == reconstruct_task_on_date(
                      maniphest_transaction, maniphest_task, phabricator_project,
                      phabricator_column, Head(rows), working_date,
                      config.default_points, project_id_list)
       IN CASE out.kind = "insert" ->
                 /\ task_on_date' = Append(task_on_date, out.row)
                 /\ rows' = Tail(rows)
                 /\ UNCHANGED <<pc, error>>
            [] out.kind = "skip" ->
                 /\ rows' = Tail(rows)
                 /\ UNCHANGED <<pc, error, task_on_date>>
            [] OTHER ->
                 /\ Abort(out.kind)
                 /\ UNCHANGED <<rows, task_on_date>>
    /\ UNCHANGED <<data, category, maniphest_edge, task_on_date_recategorized, today,
                   budget, args, working_date, line_no, counter, project_id_list, rules,
                   calls, edge0, category0, prev>>

\* Second loop, bottom: the parent categories of the day (their tables are
\* not part of the model).
ParentCategories ==
    /\ pc = "tasks"
    /\ rows = <<>>
    /\ Called("get_phab_parent_categories_by_day", working_date)
    /\ pc' = "recon"
    /\ UNCHANGED <<data, tables, today, budget, args, working_date, rows, line_no,
                   counter, project_id_list, rules, error, edge0, category0, prev>>

\* After the window: category titles, category tasks, status repair.
PostWindow ==
    /\ pc = "post"
    /\ calls' = calls \o <<<<"update_phab_parent_category_titles", start_date[1]>>,
                           <<"put_category_tasks_in_own_category", TagCategory>>,
                           <<"fix_status", 0>>>>
    /\ task_on_date' = fix_status(task_on_date)
    /\ pc' = "done"
    /\ UNCHANGED <<data, category, maniphest_edge, task_on_date_recategorized, today,
                   budget, args, working_date, rows, line_no, counter, project_id_list,
                   rules, error, edge0, category0, prev>>

\* ------------------------------------------------------------------ report
\* Up to the call of recategorize and its fetch of the rules.
ReportSetup ==
    /\ pc = "report_setup"
    /\ IF task_on_date = <<>>
       THEN /\ Abort("NoData")
            /\ UNCHANGED <<task_on_date_recategorized, rules, calls>>
       ELSE /\ task_on_date_recategorized' = load_tasks_to_recategorize(task_on_date)
            /\ rules' = get_category_rules(category)
            /\ calls' = calls \o <<<<"wipe_reporting", 0>>,
                                   <<"load_tasks_to_recategorize", 0>>>>
            /\ pc' = "recat"
            /\ UNCHANGED error
    /\ UNCHANGED <<data, category, maniphest_edge, task_on_date, today, budget, args,
                   working_date, rows, line_no, counter, project_id_list, edge0, category0, prev>>

\* recategorize taking the fetched rules from the far end.
RecatRuleLastFirst ==
    /\ pc = "recat"
    /\ rules # <<>>
    /\ LET r == rules[Len(rules)]
           out == RecategorizeRow(task_on_date_recategorized, maniphest_transaction,
                                  maniphest_task, r)
       IN /\ task_on_date_recategorized' = out.table
          /\ IF out.error # ""
             THEN /\ Abort(out.error)
                  /\ UNCHANGED <<rules, calls>>
             ELSE /\ rules' = SubSeq(rules, 1, Len(rules) - 1)
                  /\ Called(r.rule, r.sort_order)
                  /\ UNCHANGED <<pc, error>>
    /\ UNCHANGED <<data, category, maniphest_edge, task_on_date, today, budget, args,
                   working_date, rows, line_no, counter, project_id_list, edge0, category0, prev>>

\* recategorize, one rule.
RecatRule ==
    /\ pc = "recat"
    /\ rules # <<>>
    /\ LET out == RecategorizeRow(task_on_date_recategorized, maniphest_transaction,
                                  maniphest_task, Head(rules))
       IN /\ task_on_date_recategorized' = out.table
          /\ IF out.error # ""
             THEN /\ Abort(out.error)
                  /\ UNCHANGED <<rules, calls>>
             ELSE /\ rules' = Tail(rules)
                  /\ Called(Head(rules).rule, Head(rules).sort_order)
                  /\ UNCHANGED <<pc, error>>
    /\ UNCHANGED <<data, category, maniphest_edge, task_on_date, today, budget, args,
                   working_date, rows, line_no, counter, project_id_list, edge0, category0, prev>>

\* recategorize returning without the purge.
PurgeSkipped ==
    /\ pc = "recat"
    /\ rules = <<>>
    /\ pc' = "retro_cat"
    /\ UNCHANGED <<data, tables, today, budget, args, working_date, rows, line_no,
                   counter, project_id_list, rules, error, calls, edge0, category0, prev>>

\* recategorize, after the last rule.
Purge ==
    /\ pc = "recat"
    /\ rules = <<>>
    /\ task_on_date_recategorized' = purge_leftover_task_on_date(task_on_date_recategorized)
    /\ Called("purge_leftover_task_on_date", 0)
    /\ pc' = "retro_cat"
    /\ UNCHANGED <<data, category, maniphest_edge, task_on_date, today, budget, args,
                   working_date, rows, line_no, counter, project_id_list, rules, error,
                   edge0, category0, prev>>

\* The two retroactive passes in the other order.
RetroCategoriesAfterPoints ==
    /\ pc = "retro_cat"
    /\ LET t1 == IF config.retroactive_points
                 THEN set_points_retroactive(task_on_date_recategorized)
                 ELSE task_on_date_recategorized
           c1 == IF config.retroactive_points
                 THEN Append(calls, <<"set_points_retroactive", 0>>) ELSE calls
       IN IF config.retroactive_categories
          THEN /\ task_on_date_recategorized' = set_category_retroactive(t1)
               /\ calls' = Append(c1, <<"set_category_retroactive", 0>>)
          ELSE /\ task_on_date_recategorized' = t1
               /\ calls' = c1
    /\ pc' = "done"
    /\ UNCHANGED <<data, category, maniphest_edge, task_on_date, today, budget, args,
                   working_date, rows, line_no, counter, project_id_list, rules, error,
                   edge0, category0, prev>>

\* if retroactive_categories: set_category_retroactive
RetroCategories ==
    /\ pc = "retro_cat"
    /\ IF config.retroactive_categories
       THEN /\ task_on_date_recategorized' =
                   set_category_retroactive(task_on_date_recategorized)
            /\ Called("set_category_retroactive", 0)
       ELSE UNCHANGED <<task_on_date_recategorized, calls>>
    /\ pc' = "retro_points"
    /\ UNCHANGED <<data, category, maniphest_edge, task_on_date, today, budget, args,
                   working_date, rows, line_no, counter, project_id_list, rules, error,
                   edge0, category0, prev>>

\* The last step that touches the Snapshots; the charts follow.
RetroPoints ==
    /\ pc = "retro_points"
    /\ IF config.retroactive_points
       THEN /\ task_on_date_recategorized' =
                   set_points_retroactive(task_on_date_recategorized)
            /\ Called("set_points_retroactive", 0)
       ELSE UNCHANGED <<task_on_date_recategorized, calls>>
    /\ pc' = "done"
    /\ UNCHANGED <<data, category, maniphest_edge, task_on_date, today, budget, args,
                   working_date, rows, line_no, counter, project_id_list, rules, error,
                   edge0, category0, prev>>

Next ==
    \/ StartReconstruct
    \/ StartReport
    \/ Exit
    \/ AdvanceDay
    \/ LoadDelete
    \/ LoadRow
    \/ ReconSetup
    \/ BuildEdges
    \/ ReconDay
    \/ ReconTask
    \/ ParentCategories
    \/ PostWindow
    \/ ReportSetup
    \/ RecatRule
    \/ Purge
    \/ RetroCategories
    \/ RetroPoints

Spec == Init /\ [][Next]_vars

\* ================================================================= claims
\* The rows an insert step adds to task_on_date (none for any other step:
\* the wipe empties the table, the status repair keeps its length).
NewRows == {task_on_date'[i] : i \in (Len(task_on_date) + 1)..Len(task_on_date')}

\* The item's tag set as of the date a Snapshot carries.
TagsOf(r) == get_edge_value(maniphest_transaction, r.date, r.id)

\* The day of the window the second loop is at: start_date for its first
\* pass, one more for each further pass.
WindowDay ==
    start_date[1] + Cardinality({i \in 1..Len(calls) : calls[i][1] = "get_tasks"}) - 1

\* C1: the matched tag of every Snapshot written is the first candidate of
\* the ordered list that is in the item's as-of tag set: it is a candidate
\* in the tag set, and no candidate before it is in the tag set.
C1_BestMatchIsFirstCandidate ==
    [][\A r \in NewRows :
         \E i \in 1..Len(project_id_list) :
            /\ project_id_list[i] = r.project_id
            /\ r.project_id \in TagsOf(r)
            /\ \A j \in 1..(i - 1) : project_id_list[j] \notin TagsOf(r)]_vars

\* C1 witness: tags {3, 7, 9}, candidates [3, 7], matched tag 3.
C1_Witness ==
    /\ pc = "tasks"
    /\ project_id_list = <<3, 7>>
    /\ \E i \in 1..Len(task_on_date) :
          /\ TagsOf(task_on_date[i]) = {3, 7, 9}
          /\ task_on_date[i].project_id = 3

\* C9: the maintenance type of every Snapshot written is "New Functionality"
\* when the new tag is in the as-of tag set (with or without the maint tag),
\* "Maintenance" when only the maint tag is, and empty when neither is.
C9_MaintenanceType ==
    [][\A r \in NewRows :
         /\ TagNew \in TagsOf(r) => r.maint_type = "New Functionality"
         /\ (TagMaint \in TagsOf(r) /\ TagNew \notin TagsOf(r))
                => r.maint_type = "Maintenance"
         /\ (TagMaint \notin TagsOf(r) /\ TagNew \notin TagsOf(r))
                => r.maint_type = ""]_vars

\* C9 witness: both reserved tags present, labelled "New Functionality".
C9_Witness ==
    \E i \in 1..Len(task_on_date) :
        /\ {TagNew, TagMaint} \subseteq TagsOf(task_on_date[i])
        /\ task_on_date[i].maint_type = "New Functionality"

\* The transactions of one attribute of a task up to a timestamp.
EventsUpTo(task, type, ts) ==
    {e \in maniphest_transaction : /\ e.task_id = task
                                   /\ e.transaction_type = type
                                   /\ e.date_modified <= ts}

\* The value of the chronologically latest of them, '' when there is none.
AsOfValue(task, type, ts) ==
    LET E == EventsUpTo(task, type, ts)
    IN IF E = {} THEN <<>>
       ELSE (CHOOSE e \in E : \A f \in E \ {e} : Later(e, f)).new_value

C3_SnapshotUniqueness ==
    \A i, j \in 1..Len(task_on_date) :
        (task_on_date[i].date = task_on_date[j].date
            /\ task_on_date[i].id = task_on_date[j].id) => i = j

\* C3 witness: an incremental run has completed right after a completed
\* incremental run with the same end date, on a table that holds Snapshots.
C3_Witness ==
    /\ pc = "done" /\ op = "reconstruct" /\ incremental
    /\ prev.op = "reconstruct" /\ prev.incremental /\ prev.pc = "done"
    /\ prev.end_date = end_date
    /\ task_on_date # <<>>

\* The as-of tag set of the task the second loop is about to reconstruct.
HeadTags == get_edge_value(maniphest_transaction, working_date, Head(rows))

\* C6: a task fetched for a date with an empty as-of tag set ends the run
\* with the missing-edge-data error and no Snapshot written; from there the
\* process only exits: nothing more is written, the task is still at the
\* head of the fetched rows (it was not passed over), no task list of a
\* later date has been fetched and no pass after the window has run.
C6_MissingTagDataIsFatal ==
    [][/\ (pc = "tasks" /\ rows # <<>> /\ HeadTags = {})
            => /\ pc' = "aborted"
               /\ error' = "MissingEdgeData"
               /\ task_on_date' = task_on_date
               /\ rows' = rows
       /\ (pc = "aborted" /\ error = "MissingEdgeData")
            => /\ pc' = "idle"
               /\ task_on_date' = task_on_date
               /\ rows # <<>> /\ HeadTags = {}
               /\ \A i \in 1..Len(task_on_date) :
                     ~(task_on_date[i].date = working_date
                         /\ task_on_date[i].id = Head(rows))
               /\ calls[Len(calls)] = <<"get_tasks", working_date>>
               /\ \A i \in 1..Len(calls) :
                     calls[i][1] \notin {"fix_status",
                                         "update_phab_parent_category_titles",
                                         "put_category_tasks_in_own_category"}]_vars

\* C6 witness: the run has stopped on the first of two fetched tasks.
C6_Witness ==
    /\ pc = "aborted"
    /\ error = "MissingEdgeData"
    /\ Len(rows) = 2
    /\ HeadTags = {}

\* C7: a task fetched for a date whose as-of tag set is not empty and holds
\* no candidate is passed over: no Snapshot is written, no error is set,
\* and the loop is at the next fetched task of the date.
C7_NoCandidateMatchIsSilent ==
    [][(pc = "tasks" /\ rows # <<>> /\ HeadTags # {}
          /\ HeadTags \cap Range(project_id_list) = {})
         => /\ task_on_date' = task_on_date
            /\ pc' = "tasks"
            /\ error' = ""
            /\ rows' = Tail(rows)
            /\ working_date' = working_date]_vars

\* C7 witness: task 1, tagged with no candidate, has been passed over and
\* the loop is at task 2 of the same date.
C7_Witness ==
    /\ pc = "tasks"
    /\ error = ""
    /\ rows = <<2>>
    /\ 1 \in Range(get_tasks(maniphest_edge, working_date, Range(project_id_list)))
    /\ get_edge_value(maniphest_transaction, working_date, 1) # {}
    /\ get_edge_value(maniphest_transaction, working_date, 1)
         \cap Range(project_id_list) = {}
    /\ \A i \in 1..Len(task_on_date) : task_on_date[i].id # 1

\* The static story points of a task, as text or None.
StoryPoints(task) == (CHOOSE t \in maniphest_task : t.id = task).story_points

\* The points the fallback chain of the specification gives: the as-of value
\* of the points transaction when there is one and it is an integer, else
\* the story points when they are an integer, else the scope's default.
ChainPoints(task, ts) ==
    LET E == EventsUpTo(task, "points", ts)
        trans == IF E = {} THEN None ELSE PyInt(Some(AsOfValue(task, "points", ts)))
        info == PyInt(StoryPoints(task))
    IN IF ~IsNone(trans) THEN trans
       ELSE IF ~IsNone(info) THEN info
       ELSE config.default_points

\* C8: the points of every Snapshot written are those of the fallback
\* chain, for every integer value of the transaction and of the story
\* points.
C8_PointsFallbackChain ==
    [][\A r \in NewRows : r.points = ChainPoints(r.id, Midnight(WindowDay + 1))]_vars

\* Does a stored rule match a Snapshot (by the kind of the rule).
RuleMatches(r, x) ==
    CASE r.rule = "ProjectByID" -> x.project_id \in Range(r.project_id_list)
      [] r.rule = "Intersection" ->
            Range(r.project_id_list)
                \subseteq get_edge_value(maniphest_transaction, x.date, x.id)
      [] r.rule = "ProjectColumn" ->
            /\ x.project_id \in Range(r.project_id_list)
            /\ x.projectcolumn = r.matchstring
      [] r.rule = "ParentTask" ->
            /\ x.project_id \in Range(r.project_id_list)
            /\ \E t \in maniphest_task :
                  /\ t.title = r.matchstring
                  /\ t.id \in Ancestors(maniphest_task, x.id, Cardinality(maniphest_task))
      [] OTHER -> FALSE

\* The rules recategorize has applied so far: the stored ones it no longer
\* has before it.
AppliedRules == Range(category) \ Range(rules)

\* The title of the rule of R with the lowest sort order that matches the
\* Snapshot, None when no rule of R matches it.
FirstTitle(R, x) ==
    LET M == {r \in R : RuleMatches(r, x)}
    IN IF M = {} THEN None
       ELSE Some((CHOOSE r \in M : \A q \in M : r.sort_order <= q.sort_order).title)

\* The positions of calls that are the use of a rule.
RuleCalls == {i \in 1..Len(calls) : calls[i][1] \in valid_rule_list}

\* C4: while recategorize applies the rules and when it has applied them
\* all, the rules applied so far were applied in ascending sort order, all
\* of them before any rule still to come, and the category of every
\* Snapshot is the title of the applied rule of lowest sort order that
\* matches it (so no later rule has overwritten it).
C4_RuleOrderDeterminism ==
    (op = "report" /\ pc \in {"recat", "retro_cat"}) =>
        /\ \A i, j \in RuleCalls : i < j => calls[i][2] < calls[j][2]
        /\ {calls[i][2] : i \in RuleCalls} = {r.sort_order : r \in AppliedRules}
        /\ \A r \in AppliedRules : \A q \in Range(rules) : r.sort_order < q.sort_order
        /\ \A i \in 1..Len(task_on_date_recategorized) :
              task_on_date_recategorized[i].category
                  = FirstTitle(AppliedRules, task_on_date_recategorized[i].row)

\* C4 witness: all rules are applied and a Snapshot matched by two rules of
\* different titles has the title of the one with the lower sort order.
C4_Witness ==
    /\ op = "report" /\ pc = "retro_cat"
    /\ \E i \in 1..Len(task_on_date_recategorized) :
          \E r, q \in Range(category) :
              /\ r.sort_order < q.sort_order
              /\ r.title # q.title
              /\ RuleMatches(r, task_on_date_recategorized[i].row)
              /\ RuleMatches(q, task_on_date_recategorized[i].row)
              /\ task_on_date_recategorized[i].category = Some(r.title)

\* C5: when recategorize has returned, every Snapshot left in the
\* reporting table has the title of a stored rule that matches it as its
\* category; through the rest of the report every Snapshot left has the
\* title of a stored rule.
C5_PurgeCompleteness ==
    (op = "report" /\ pc \in {"retro_cat", "retro_points", "done"}) =>
        \A i \in 1..Len(task_on_date_recategorized) :
            LET x == task_on_date_recategorized[i]
            IN /\ ~IsNone(x.category)
               /\ \E r \in Range(category) :
                     /\ r.title = x.category[1]
                     /\ pc = "retro_cat" => RuleMatches(r, x.row)

\* C5 witness: recategorize has returned; some Snapshots were purged and
\* some are left.
C5_Witness ==
    /\ op = "report" /\ pc = "retro_cat"
    /\ task_on_date_recategorized # <<>>
    /\ Len(task_on_date_recategorized) < Len(task_on_date)

\* What a run has in hand while it walks a window: the Snapshots written
\* and the error that ended it ("" while it goes on).
RECURSIVE DayOf(_, _, _, _)
\* The calls of reconstruct_task_on_date for the tasks ts fetched for a date.
DayOf(list, date, ts, out) ==
    IF ts = <<>> \/ out.error # "" THEN out
    ELSE LET r == reconstruct_task_on_date(
                      maniphest_transaction, maniphest_task, phabricator_project,
                      phabricator_column, Head(ts), date, config.default_points, list)
         IN DayOf(list, date, Tail(ts),
                  CASE r.kind = "insert" -> [out EXCEPT !.table = Append(@, r.row)]
                    [] r.kind = "skip" -> out
                    [] OTHER -> [out EXCEPT !.error = r.kind])

RECURSIVE EdgesOf(_, _, _, _)
\* maniphest_edge after build_edges for each date of [d, end].
EdgesOf(edge, list, d, end) ==
    IF d > end THEN edge
    ELSE EdgesOf(build_edges(edge, maniphest_transaction, d,
                             Range(list) \cup Range(PHAB_TAGS)),
                 list, d + 1, end)

RECURSIVE WindowOf(_, _, _, _, _)
\* The second loop over [d, end].
WindowOf(edge, list, d, end, out) ==
    IF d > end \/ out.error # "" THEN out
    ELSE WindowOf(edge, list, d + 1, end,
                  DayOf(list, d + 1, get_tasks(edge, d + 1, Range(list)), out))

\* The Snapshot table a single full reconstruction over [d0, d5] leaves,
\* started on the maniphest_edge table given, with the rules now stored.
FullRun(d0, d5, edge) ==
    LET list == get_project_list_from_recategorization(category)
        out == WindowOf(EdgesOf(edge, list, d0, d5), list, d0, d5,
                        [table |-> <<>>, error |-> ""])
    IN IF out.error = "" THEN fix_status(out.table) ELSE out.table

\* C2: when an incremental run has ended and the run before it was a
\* completed full reconstruction over [d0, d3], d0 <= d3 <= d5 with d5 the
\* end date of the incremental run, the Snapshots of the scope are those a
\* single full reconstruction over [d0, d5] leaves.
C2_IncrementalEquivalence ==
    (/\ op = "reconstruct" /\ incremental /\ pc \in {"done", "aborted"}
     /\ prev.op = "reconstruct" /\ ~prev.incremental /\ prev.pc = "done"
     /\ prev.start_date[1] <= prev.end_date
     /\ prev.end_date <= end_date)
        => Range(task_on_date)
             = Range(FullRun(prev.start_date[1], end_date, prev.edge))

\* The date of the earliest transaction of the whole log.
EarliestDate ==
    (CHOOSE t \in {e.date_modified : e \in maniphest_transaction} :
        \A u \in {e.date_modified : e \in maniphest_transaction} : t <= u)
    \div TicksPerDay

\* A full-mode reconstruction is running.
FullMode == op = "reconstruct" /\ ~incremental

\* C11, the part on the deletion: a full-mode run empties the Snapshot
\* table when it leaves its setup, writes Snapshots only after that, in its
\* second loop, and when it completes every Snapshot stored has a date the
\* run has walked.
C11_WipeFirst ==
    /\ (FullMode /\ pc = "recon_setup" /\ pc' = "build") => task_on_date' = <<>>
    /\ (FullMode /\ NewRows # {}) => pc = "tasks"
    /\ (FullMode /\ pc = "post" /\ pc' = "done") =>
          \A i \in 1..Len(task_on_date') :
              task_on_date'[i].date \in (start_date[1] + 1)..(end_date + 1)

\* C11: a full-mode run deletes the Snapshots of the scope before it writes
\* one, and a full-mode run started with no start date goes ahead, its
\* window starting at the date of the earliest transaction of the log.
C11_FullModeFromScratch ==
    [][/\ C11_WipeFirst
       /\ (pc = "idle" /\ op' = "reconstruct" /\ ~incremental' /\ IsNone(start_date'))
             => pc' = "load_delete"
       /\ (FullMode /\ pc = "recon_setup" /\ IsNone(start_date))
             => /\ pc' = "build"
                /\ start_date' = Some(EarliestDate)
                /\ working_date' = EarliestDate]_vars

\* An incremental reconstruction is running.
IncrementalMode == op = "reconstruct" /\ incremental

\* The latest date of the Snapshots stored (of a table that is not empty).
LatestDate ==
    CHOOSE d \in {task_on_date[i].date : i \in 1..Len(task_on_date)} :
        \A i \in 1..Len(task_on_date) : task_on_date[i].date <= d

\* An incremental run is at the step that fixes its start, with candidate
\* projects to look up.
AtIncrementalBase ==
    /\ IncrementalMode
    /\ pc = "recon_setup"
    /\ get_project_list_from_recategorization(category) # <<>>

\* C12: an incremental run starts at the latest date of the Snapshots
\* stored, whatever start date it was given, and leaves the Snapshots as
\* they are; with no Snapshot stored it ends with an error there, and then
\* no denormalization was computed and no Snapshot is created, changed or
\* deleted.
C12_IncrementalBase ==
    [][/\ (AtIncrementalBase /\ task_on_date # <<>>)
            => /\ pc' = "build"
               /\ start_date' = Some(LatestDate)
               /\ working_date' = LatestDate
               /\ task_on_date' = task_on_date
       /\ (AtIncrementalBase /\ task_on_date = <<>>)
            => /\ pc' = "aborted"
               /\ error' = "NoIncrementalBase"
               /\ task_on_date' = <<>>
       /\ (IncrementalMode /\ pc = "aborted" /\ error = "NoIncrementalBase")
            => /\ task_on_date = <<>>
               /\ task_on_date' = <<>>
               /\ maniphest_edge = edge0
               /\ maniphest_edge' = maniphest_edge
               /\ \A i \in 1..Len(calls) : calls[i][1] # "build_edges"]_vars

\* C12 witness: an incremental run is about to build its first date, which
\* is the latest Snapshot date and none of the start dates a caller gives.
C12_Witness ==
    /\ IncrementalMode
    /\ pc = "build"
    /\ calls = <<>>
    /\ task_on_date # <<>>
    /\ working_date = LatestDate
    /\ start_date = Some(LatestDate)
    /\ start_date \notin StartDates

\* The loader is about to read a line of the file.
AtLine == pc = "load_row" /\ line_no <= Len(recat_file)

\* The line the loader is about to read.
ThisLine == recat_file[line_no]

\* C13: a line whose rule kind is not one of the six ends the load with an
\* error, and the load is then not partial: the scope holds no rule of the
\* lines before it (it holds no rule, or the rules it held before the load).
C13_FailFastNotPartial ==
    [][(AtLine /\ ThisLine.rule \notin valid_rule_list)
          => /\ pc' = "aborted"
             /\ error' = "InvalidRule"
             /\ category' \in {<<>>, category0}]_vars

\* The projects whose name is the match string of the line.
NameMatches == {q \in phabricator_project : q.name = ThisLine.matchstring}

\* C14: a ProjectByName line stores a rule only when exactly one project
\* has the name; with no such project, with several, or with a blank name
\* the line ends the load with an error and stores nothing.
C14_ProjectByNameResolution ==
    [][(AtLine /\ ThisLine.rule = "ProjectByName" /\ Len(ThisLine.id) <= 1)
          => IF Cardinality(NameMatches) = 1 /\ ThisLine.matchstring # <<>>
             THEN /\ pc' = "load_row"
                  /\ \/ category' = category
                     \/ /\ Len(category') = Len(category) + 1
                        /\ category'[Len(category')].project_id_list
                             = <<(CHOOSE q \in NameMatches : TRUE).id>>
             ELSE /\ pc' = "aborted"
                  /\ error' # ""
                  /\ category' = category]_vars

\* The projects whose name contains the match string of the line.
WildcardMatches ==
    {q \in phabricator_project : Contains(q.name, ThisLine.matchstring)}

\* The matched projects whose rule the scope does not hold yet.
FreshMatches ==
    {q \in WildcardMatches :
        ~\E i \in 1..Len(category) :
            /\ category[i].rule = "ProjectByID"
            /\ category[i].project_id_list = <<q.id>>
            /\ category[i].matchstring = <<>>
            /\ category[i].title = q.name}

\* The rules a step of the loader adds after the ones stored.
AddedRules == SubSeq(category', Len(category) + 1, Len(category'))

\* The step adds to the rules stored exactly one rule for each project of
\* M: of kind ProjectByID, with that project alone as its id list, with
\* sort orders that go up by one from rule to rule.
ExpandsTo(M) ==
    /\ Len(category') = Len(category) + Cardinality(M)
    /\ SubSeq(category', 1, Len(category)) = category
    /\ {AddedRules[i].project_id_list : i \in 1..Len(AddedRules)} = {<<q.id>> : q \in M}
    /\ \A i \in 1..Len(AddedRules) :
          /\ AddedRules[i].rule = "ProjectByID"
          /\ AddedRules[i].sort_order = AddedRules[1].sort_order + i - 1

\* The loader is about to read a ProjectsByWildcard line that passes the
\* check of its ids.
AtWildcardLine ==
    AtLine /\ ThisLine.rule = "ProjectsByWildcard" /\ Len(ThisLine.id) <= 1

\* C15 as stated: a ProjectsByWildcard line whose match string matches k
\* projects stores exactly k rules, one for each.
C15_WildcardExpansionAll ==
    [][AtWildcardLine => ExpandsTo(WildcardMatches)]_vars

\* C15 amended: a ProjectsByWildcard line stores one rule for each matched
\* project whose rule does not collide with a rule already stored for the
\* scope (all k of them when none collides), each of kind ProjectByID with
\* that project as its only id, with strictly increasing, contiguous sort
\* orders that start at the loader's counter; the load goes on.
C15_WildcardExpansion ==
    [][AtWildcardLine
          => /\ ExpandsTo(FreshMatches)
             /\ FreshMatches # {} => category'[Len(category) + 1].sort_order = counter
             /\ counter' = counter + Cardinality(FreshMatches)
             /\ pc' = "load_row"]_vars

\* C15 witness: the first line of the file was a wildcard that matches
\* three projects, and the scope holds three rules.
C15_Witness ==
    /\ pc = "load_row"
    /\ line_no = 2
    /\ recat_file[1].rule = "ProjectsByWildcard"
    /\ Cardinality({q \in phabricator_project :
                      Contains(q.name, recat_file[1].matchstring)}) = 3
    /\ Len(category) = 3

\* The sort orders of the rules stored.
SortOrders == {category[i].sort_order : i \in 1..Len(category)}

\* C16: a line of the file keeps the rules of the lines before it and gives
\* its own rules sort orders above all of theirs; when the last line has
\* been read without an error the sort orders of the rules stored are
\* pairwise distinct and, if there is a rule, the smallest is 0.
C16_SortOrderFollowsFile ==
    [][/\ AtLine
            => /\ SubSeq(category', 1, Len(category)) = category
               /\ \A j \in 1..Len(AddedRules) : \A i \in 1..Len(category) :
                     category[i].sort_order < AddedRules[j].sort_order
       /\ (pc = "load_row" /\ line_no > Len(recat_file))
            => /\ Cardinality(SortOrders) = Len(category)
               /\ category # <<>> => (0 \in SortOrders /\ \A o \in SortOrders : o >= 0)]_vars

\* C16 witness: a load of three lines, one of them a wildcard, has ended
\* without an error with four rules stored.
C16_Witness ==
    /\ pc \in {"recon_setup", "report_setup"}
    /\ Len(recat_file) = 3
    /\ \E i \in 1..3 : recat_file[i].rule = "ProjectsByWildcard"
    /\ Len(category) = 4

\* The kinds of row that take exactly one tag id next to their match string.
OneIdKinds == {"ProjectColumn", "ParentTask"}

\* C17: a row with more than one tag id that is not an Intersection aborts
\* the load; an Intersection row with several tag ids is accepted, and the
\* rule stored for it has all of them; a ProjectColumn or ParentTask row
\* is accepted only with exactly one tag id.
C17_TagIdArity ==
    [][AtLine
          => /\ (ThisLine.rule \in valid_rule_list /\ ThisLine.rule # "Intersection"
                 /\ Len(ThisLine.id) > 1)
                  => (pc' = "aborted" /\ AddedRules = <<>>)
             /\ (ThisLine.rule = "Intersection" /\ Len(ThisLine.id) > 1)
                  => /\ pc' = "load_row"
                     /\ \A j \in 1..Len(AddedRules) :
                           AddedRules[j].project_id_list = ThisLine.id
             /\ (ThisLine.rule \in OneIdKinds /\ pc' = "load_row")
                  => Len(ThisLine.id) = 1]_vars

\* The rules the file resolves to against the projects, from nothing stored.
ResolvedRules ==
    ImportLines([category |-> <<>>, counter |-> 0, error |-> ""],
                recat_file, phabricator_project).category

\* The load is running.
Loading == pc \in {"load_delete", "load_row"}

\* The step that ends a load without an error.
LoadEnds == pc = "load_row" /\ line_no > Len(recat_file)

\* C18: a reconstruction or a report that starts goes to the load of the
\* rules first, and nothing but the rules changes before the load has
\* ended; when the load ends without an error the rules stored are exactly
\* the rules the file resolves to: none of an earlier load is left, none is
\* merged in.
C18_WholesaleReload ==
    [][/\ (pc = "idle" /\ pc' \notin {"idle", "aborted"}) => pc' = "load_delete"
       /\ Loading => UNCHANGED <<maniphest_edge, task_on_date,
                                 task_on_date_recategorized, calls>>
       /\ LoadEnds => category = ResolvedRules]_vars

\* C18 witness: a load has ended without an error in a scope that held the
\* rules of an earlier file, some of which the current file does not have.
C18_Witness ==
    /\ pc \in {"recon_setup", "report_setup"}
    /\ category0 = StoredBefore
    /\ category # <<>>
    /\ \E i \in 1..Len(category0) : \A j \in 1..Len(category) :
          category[j].title # category0[i].title

\* C19: while a scope that held rules is reloaded from a file that has
\* rows, what a reader of the rules finds is never empty and never a part
\* of the new rules: it is the rules held before or all the new ones.
C19_AtomicReload ==
    (Loading /\ category0 # <<>> /\ recat_file # <<>>)
        => /\ category # <<>>
           /\ category \in {category0, ResolvedRules}

\* The kinds of row whose tag ids are written in the row.
ExplicitKinds == {"ProjectByID", "Intersection", "ProjectColumn", "ParentTask"}

\* The ids of the known projects.
KnownIds == {q.id : q \in phabricator_project}

\* C20: a row of a kind with explicit tag ids stores its ids as given when
\* all of them are known projects; when one of them is not, the row is an
\* error and no rule is stored for it.
C20_ExplicitIdsKnown ==
    [][(AtLine /\ ThisLine.rule \in ExplicitKinds)
          => /\ Range(ThisLine.id) \subseteq KnownIds
                  => \A j \in 1..Len(AddedRules) :
                        AddedRules[j].project_id_list = ThisLine.id
             /\ ~(Range(ThisLine.id) \subseteq KnownIds)
                  => (pc' = "aborted" /\ AddedRules = <<>>)]_vars

\* The scope holds a rule of this content.
StoredAs(rule, ids, matchstring, title) ==
    \E i \in 1..Len(category) :
        /\ category[i].rule = rule
        /\ category[i].project_id_list = ids
        /\ category[i].matchstring = matchstring
        /\ category[i].title = title

\* The line is of a kind that stores one rule at most, it passes the checks
\* of the loader, and the rule it resolves to is one the scope holds.
OneRuleCollides ==
    /\ Len(ThisLine.id) <= 1 \/ ThisLine.rule = "Intersection"
    /\ \/ /\ ThisLine.rule \in ExplicitKinds
          /\ StoredAs(ThisLine.rule, ThisLine.id, ThisLine.matchstring, ThisLine.title)
       \/ /\ ThisLine.rule = "ProjectByName"
          /\ NameMatches # {}
          /\ StoredAs("ProjectByID",
                      <<get_projects_by_name(phabricator_project,
                                             ThisLine.matchstring, FALSE)[1].id>>,
                      <<>>, ThisLine.title)

\* The line is a wildcard and the rule of one of its matches is one the
\* scope holds.
WildcardCollides == AtWildcardLine /\ FreshMatches # WildcardMatches

\* C21: a line whose rule collides with a rule stored for the scope does
\* not end the load and is read once: the rule is not stored a second time,
\* the rules stored before are unchanged, and the loader goes on to the
\* next line.
C21_DuplicateRuleSkip ==
    [][/\ (AtLine /\ OneRuleCollides)
            => /\ category' = category
               /\ counter' = counter
               /\ pc' = "load_row" /\ error' = "" /\ line_no' = line_no + 1
       /\ WildcardCollides
            => /\ SubSeq(category', 1, Len(category)) = category
               /\ Len(AddedRules) = Cardinality(FreshMatches)
               /\ \A j \in 1..Len(AddedRules) :
                     \E q \in FreshMatches : AddedRules[j].project_id_list = <<q.id>>
               /\ pc' = "load_row" /\ error' = "" /\ line_no' = line_no + 1]_vars

\* C21 witness: a load of three lines whose second line repeats the first
\* has ended without an error, with the rule of the first line and the rule
\* of the third.
C21_Witness ==
    /\ pc \in {"recon_setup", "report_setup"}
    /\ Len(recat_file) = 3
    /\ recat_file[2] = recat_file[1]
    /\ Len(category) = 2
    /\ category[1].project_id_list = recat_file[1].id
    /\ category[2].project_id_list = recat_file[3].id

\* A report has ended that followed a full reconstruction of the window
\* from day 0 to FirstDay, in the scenario of one rule and one task.
ScenarioDone ==
    /\ recat_file = FileOne
    /\ maniphest_transaction \in ScenarioLogs
    /\ prev.op = "reconstruct" /\ ~prev.incremental /\ prev.pc = "done"
    /\ prev.start_date = Some(0) /\ prev.end_date = FirstDay
    /\ op = "report" /\ pc = "done"

\* The Snapshots of the report are open, new functionality, and in the
\* category of the rule.
ScenarioRows ==
    \A i \in 1..Len(task_on_date_recategorized) :
        LET x == task_on_date_recategorized[i]
        IN /\ x.row.id = 1
           /\ x.row.status = <<"open">>
           /\ x.row.maint_type = "New Functionality"
           /\ x.category = Some(FileOne[1].title)

\* C22: in that scenario the report holds exactly one Snapshot for each
\* day of the window, FirstDay + 1 of them, each with status open,
\* maintenance type "New Functionality" and the title of the rule as its
\* category.
C22_EndToEndScenario ==
    ScenarioDone
        => /\ Len(task_on_date_recategorized) = FirstDay + 1
           /\ Cardinality({task_on_date_recategorized[i].row.date :
                              i \in 1..Len(task_on_date_recategorized)}) = FirstDay + 1
           /\ ScenarioRows

\* The positions in calls of the calls of a procedure.
CallsOf(name) == {i \in 1..Len(calls) : calls[i][1] = name}

\* C23: the dates of a reconstruction are taken in strictly ascending
\* order, and when the tasks of a date are fetched, to be reconstructed as
\* of that date, the same run has already rebuilt maniphest_edge for that
\* date.
C23_DenormalizationPrecedesLookup ==
    op = "reconstruct"
        => /\ \A i \in CallsOf("get_tasks"), j \in CallsOf("get_tasks") :
                 i < j => calls[i][2] < calls[j][2]
           /\ \A i \in CallsOf("get_tasks") :
                 \E j \in CallsOf("build_edges") : j < i /\ calls[j][2] = calls[i][2]

\* The kinds of the rules of a sequence of rules.
KindsOf(rs) == {rs[i].rule : i \in 1..Len(rs)}

\* C24: when a load ends without an error every rule stored has one of the
\* four kinds recategorize knows; the rules recategorize fetches have these
\* kinds, each of its steps takes one rule off its list without an error,
\* and the step after the last rule is the purge of the leftover rows.
C24_StoredKindsClosed ==
    [][/\ LoadEnds => KindsOf(category) \subseteq ExplicitKinds
       /\ pc = "recat"
            => /\ KindsOf(rules) \subseteq ExplicitKinds
               /\ pc' # "aborted" /\ error' = ""
               /\ IF rules # <<>>
                  THEN pc' = "recat" /\ Len(rules') = Len(rules) - 1
                  ELSE /\ pc' = "retro_cat"
                       /\ calls'[Len(calls')][1] = "purge_leftover_task_on_date"]_vars

\* C24 witness: a report whose file has a ProjectByName line and a
\* ProjectsByWildcard line has applied its rules, all of kind ProjectByID,
\* and has run the purge.
C24_Witness ==
    /\ op = "report" /\ pc = "retro_cat"
    /\ {"ProjectByName", "ProjectsByWildcard"} \subseteq KindsOf(recat_file)
    /\ Len(category) >= 2
    /\ KindsOf(category) = {"ProjectByID"}
    /\ calls[Len(calls)][1] = "purge_leftover_task_on_date"

\* Every rule of the scope has been applied before position i of calls.
RulesAppliedBefore(i) ==
    \A k \in 1..Len(category) :
        \E j \in 1..(i - 1) : calls[j] = <<category[k].rule, category[k].sort_order>>

\* C25: in a report the retroactive passes come after the purge, which
\* comes after every rule; the pass of the categories comes before the pass
\* of the points; a pass whose flag is false does not run, a pass whose
\* flag is true has run once when the report is done; the purge runs once.
C25_PostPassOrdering ==
    op = "report"
        => LET purge == CallsOf("purge_leftover_task_on_date")
               cats == CallsOf("set_category_retroactive")
               points == CallsOf("set_points_retroactive")
           IN /\ \A i \in purge : RulesAppliedBefore(i)
              /\ \A i \in cats \cup points : \E j \in purge : j < i
              /\ \A i \in cats \cup points : \A j \in purge : j < i
              /\ \A i \in cats : \A j \in points : i < j
              /\ Cardinality(purge) <= 1
              /\ ~config.retroactive_categories => cats = {}
              /\ ~config.retroactive_points => points = {}
              /\ pc = "done"
                    => /\ Cardinality(purge) = 1
                       /\ config.retroactive_categories => Cardinality(cats) = 1
                       /\ config.retroactive_points => Cardinality(points) = 1

\* C25 witness: a report with both flags set is done, with two rules or
\* more applied and both passes run.
C25_Witness ==
    /\ op = "report" /\ pc = "done"
    /\ config.retroactive_categories /\ config.retroactive_points
    /\ Len(category) >= 2
    /\ CallsOf("set_category_retroactive") # {}
    /\ CallsOf("set_points_retroactive") # {}

====
